---------------------------- MODULE Spec2Model ----------------------------
(***************************************************************************)
(* A model of the logging library src/log.go: Logger handles, the worker   *)
(* goroutine each handle starts in Init, the unbuffered channels output    *)
(* and stop, printMessage's splitting loop, and the package-level          *)
(* singleton.  Strings that the code inspects character by character       *)
(* (messages, LOG_MSG_LEN) are sequences of one-character strings.         *)
(***************************************************************************)
EXTENDS Integers, Sequences, FiniteSets, TLC

VARIABLES
    LOGLEVEL,      \* os.Getenv("LOGLEVEL")
    LOG_MSG_LEN,   \* os.Getenv("LOG_MSG_LEN"), a sequence of characters
    msgPool,       \* the message texts the callers of this run may log
    loggers,       \* the Logger objects created so far, in creation order
    workers,       \* workers[l]: the goroutine started by Init for loggers[l]
    threads,       \* threads[t]: where caller goroutine t is inside the API
    singleLogger,  \* the package variable; 0 is nil, else an index of loggers
    stdout,        \* the lines written to os.Stdout, in order
    sinkOut,       \* sinkOut[w]: the lines written to io.Writer w, in order
    now,           \* time.Now(), a logical clock
    panicked,      \* "" or the runtime panic that ended the process
    ops,           \* number of API calls started so far
    accepted,      \* history: accepted[l] = records received from loggers[l].output
    processed,     \* history: Timestamps of the records printMessage returned for
    syncReturned,  \* history: the loggers on which a StopSync call has returned
    stopCalls,     \* history: stopCalls[l] = number of Stop/StopSync calls on l
    transitions,   \* history: nil -> non-nil changes of singleLogger
    initReturned,  \* history: the loggers InitSingleStr calls returned
    failing,       \* the io.Writers whose Write returns an error
    dropped,       \* history: Len(loggers) at each package-level log call that
                   \*          found singleLogger nil
    idSetAt        \* history: idSetAt[l] = the clock at the last SetModuleId on l

vars == <<LOGLEVEL, LOG_MSG_LEN, msgPool, failing, dropped, idSetAt,
          loggers, workers, threads,
          singleLogger, stdout, sinkOut, now, panicked, ops, accepted,
          processed, syncReturned, stopCalls, transitions, initReturned>>

-----------------------------------------------------------------------------
(* Bounds of the model *)

NumThreads == 2
MaxOps == 3
MaxLoggers == 2
NumSinks == 2
MaxRecordLines == 3
MaxMsgLen == 3

Threads == 1..NumThreads
Sinks == 1..NumSinks

-----------------------------------------------------------------------------
(* Levels, LogLevel.MarshalJSON *)

DebugLevel == 0
InfoLevel == 1
WarningLevel == 2
ErrorLevel == 3
MaxMsgLength == 8000

Levels == {DebugLevel, InfoLevel, WarningLevel, ErrorLevel}

LevelName(l) ==
    CASE l = DebugLevel -> "DEBUG"
      [] l = InfoLevel -> "INFO"
      [] l = WarningLevel -> "WARNING"
      [] l = ErrorLevel -> "ERROR"
      [] OTHER -> "LEVEL" \o ToString(l)

NL == "\n"


-----------------------------------------------------------------------------
(* Go's string operations on sequences of characters, with Go's 0-based    *)
(* offsets.                                                                *)

\* strings.Index(text, c): the offset of the first c in text, or -1.
Index(text, c) ==
    IF \E i \in 1..Len(text) : text[i] = c
    THEN (CHOOSE i \in 1..Len(text) :
              text[i] = c /\ \A j \in 1..(i - 1) : text[j] # c) - 1
    ELSE -1

\* text[lo:hi]
Slice(text, lo, hi) == SubSeq(text, lo + 1, hi)

\* text[lo:]
SliceFrom(text, lo) == SubSeq(text, lo + 1, Len(text))

\* The inner loop of printMessage (src/log.go:69-76), entered with
\* i = strings.Index(text, "\n") and index = -1: the offset of the last
\* newline at an offset <= msgLen, or -1.
RECURSIVE LastNewline(_, _, _, _)
LastNewline(text, msgLen, i, index) ==
    IF i # -1 /\ i <= msgLen
    THEN LET next == Index(SliceFrom(text, i + 1), NL)
         IN  IF next = -1 THEN i
             ELSE LastNewline(text, msgLen, next + i + 1, i)
    ELSE index

Digits == {"0", "1", "2", "3", "4", "5", "6", "7", "8", "9"}

DigitVal(c) ==
    CASE c = "0" -> 0 [] c = "1" -> 1 [] c = "2" -> 2 [] c = "3" -> 3
      [] c = "4" -> 4 [] c = "5" -> 5 [] c = "6" -> 6 [] c = "7" -> 7
      [] c = "8" -> 8 [] c = "9" -> 9

RECURSIVE DecimalValue(_, _)
DecimalValue(s, acc) ==
    IF s = <<>> THEN acc ELSE DecimalValue(Tail(s), 10 * acc + DigitVal(Head(s)))

\* strconv.Atoi(s) with its error dropped (src/log.go:132): the value of an
\* optionally signed decimal numeral, and 0 for anything else.
Atoi(s) ==
    LET signed == s # <<>> /\ Head(s) \in {"-", "+"}
        body == IF signed THEN Tail(s) ELSE s
    IN  IF body = <<>> \/ \E i \in 1..Len(body) : body[i] \notin Digits
        THEN 0
        ELSE IF signed /\ Head(s) = "-" THEN 0 - DecimalValue(body, 0)
             ELSE DecimalValue(body, 0)

-----------------------------------------------------------------------------
(* LogMsg and its JSON form *)

\* The zero LogMsg.  SrcFile and SrcLine (runtime.Caller) are not modelled.
NoMsg == [Timestamp |-> 0, Level |-> 0, Message |-> <<>>,
          Module |-> "", ModuleId |-> ""]

\* json.Marshal(msg) as the JSON object it encodes: the struct tags rename
\* Module and ModuleId, Level goes through MarshalJSON, and service_id is
\* left out when empty (omitempty).
Marshal(msg) ==
    LET keys == {"timestamp", "level", "message", "service"}
                  \cup (IF msg.ModuleId # "" THEN {"service_id"} ELSE {})
    IN  [k \in keys |->
            CASE k = "timestamp" -> msg.Timestamp
              [] k = "level" -> LevelName(msg.Level)
              [] k = "message" -> msg.Message
              [] k = "service" -> msg.Module
              [] k = "service_id" -> msg.ModuleId]

\* The lines of a stream that carry the record stamped ts.
LinesOf(stream, ts) == SelectSeq(stream, LAMBDA ln : ln["timestamp"] = ts)

\* Mutant of Emit: the line goes in front of what was written.
EmitFirst(stream, line) ==
    IF Len(LinesOf(stream, line["timestamp"])) < MaxRecordLines
    THEN <<line>> \o stream
    ELSE stream

\* One line written to a stream.  The model keeps the first MaxRecordLines
\* lines of each record and drops the rest, so that a worker that writes
\* without end has finitely many states.
Emit(stream, line) ==
    IF Len(LinesOf(stream, line["timestamp"])) < MaxRecordLines
    THEN Append(stream, line)
    ELSE stream

-----------------------------------------------------------------------------
(* Logger, Init *)

Range(f) == {f[i] : i \in DOMAIN f}

\* The switch on LOGLEVEL in Init (src/log.go:121-131).
ParseLevel(level) ==
    CASE level \in {"ERROR", "3"} -> ErrorLevel
      [] level \in {"WARNING", "2"} -> WarningLevel
      [] level \in {"DEBUG", "0"} -> DebugLevel
      [] OTHER -> InfoLevel

\* The split threshold Init computes (src/log.go:132-135).
ParseMsgLen(s) == IF Atoi(s) = 0 THEN MaxMsgLength ELSE Atoi(s)

\* The Logger that Init(module) returns.  output and stop are unbuffered
\* channels; all the model keeps of each is whether it has been closed.
\* Init(module) is a state function: it reads the environment.
Init(module) ==
    [module |-> module, id |-> "", Level |-> ParseLevel(LOGLEVEL),
     writers |-> <<>>, msgLen |-> ParseMsgLen(LOG_MSG_LEN),
     outputClosed |-> FALSE, stopClosed |-> FALSE]

\* The goroutine Init starts (src/log.go:136-142), about to receive.
NewWorker == [pc |-> "recv", msg |-> NoMsg, msgPart |-> NoMsg, text |-> <<>>,
              ws |-> <<>>, wi |-> 0]

\* A caller goroutine that is outside the API.  single: the call came
\* through StopSyncSingle; late (history): the log call started after the
\* queue was closed.
Idle == [at |-> "idle", l |-> 0, msg |-> NoMsg, ws |-> <<>>, w |-> 0,
         single |-> FALSE, late |-> FALSE]

LoggerIds == 1..Len(loggers)

Running == panicked = ""

CanCall(t) == Running /\ threads[t].at = "idle" /\ ops < MaxOps

\* The worker of l is inside printMessage.
Printing(l) == workers[l].pc \in {"print", "loop", "fragsinks", "lastsinks"}

-----------------------------------------------------------------------------
(* The methods of a Logger, as steps of caller goroutine t on loggers[l] *)

\* Mutant of log: the LogMsg is built without the logger's id.
logWithoutId(t, l, level, text) ==
    /\ threads' = [threads EXCEPT ![t] =
           [Idle EXCEPT !.at = "send", !.l = l,
                        !.late = loggers[l].outputClosed,
                        !.msg = [Timestamp |-> now + 1, Level |-> level,
                                 Message |-> text,
                                 Module |-> loggers[l].module,
                                 ModuleId |-> ""]]]
    /\ now' = now + 1

\* Logger.log up to its channel send (src/log.go:101-110): the LogMsg is
\* built from the logger's fields as they are now, then the goroutine
\* blocks in the send on the unbuffered channel.
log(t, l, level, text) ==
    /\ threads' = [threads EXCEPT ![t] =
           [Idle EXCEPT !.at = "send", !.l = l,
                        !.late = loggers[l].outputClosed,
                        !.msg = [Timestamp |-> now + 1, Level |-> level,
                                 Message |-> text,
                                 Module |-> loggers[l].module,
                                 ModuleId |-> loggers[l].id]]]
    /\ now' = now + 1

\* Mutant of LogCall: the producer also writes the line to standard output
\* itself, from its own goroutine, before it enqueues the record.
LogCallAndWrite(t, l, level, text) ==
    /\ CanCall(t)
    /\ log(t, l, level, text)
    /\ stdout' = Emit(stdout, Marshal([Timestamp |-> now + 1, Level |-> level,
                                       Message |-> text,
                                       Module |-> loggers[l].module,
                                       ModuleId |-> loggers[l].id]))
    /\ ops' = ops + 1
    /\ UNCHANGED <<LOGLEVEL, LOG_MSG_LEN, msgPool, failing, dropped, idSetAt,
                   loggers, workers, singleLogger, sinkOut, panicked,
                   accepted, processed, syncReturned, stopCalls, transitions,
                   initReturned>>

\* Logger.Debug/Info/Warning/Error and LogWriter.Write (src/log.go:146-181):
\* all are log at a fixed level.
LogCall(t, l, level, text) ==
    /\ CanCall(t)
    /\ log(t, l, level, text)
    /\ ops' = ops + 1
    /\ UNCHANGED <<LOGLEVEL, LOG_MSG_LEN, msgPool, failing, dropped, idSetAt,
                   loggers, workers,
                   singleLogger, stdout, sinkOut, panicked, accepted,
                   processed, syncReturned, stopCalls, transitions,
                   initReturned>>

\* A send on a closed channel panics, also when the channel is closed while
\* the sender is blocked (src/log.go:102).
SendPanic(t) ==
    /\ Running
    /\ threads[t].at = "send"
    /\ loggers[threads[t].l].outputClosed
    /\ panicked' = "send on closed channel"
    /\ threads' = [threads EXCEPT ![t].at = "panicked"]
    /\ UNCHANGED <<LOGLEVEL, LOG_MSG_LEN, msgPool, failing, dropped, idSetAt,
                   loggers, workers,
                   singleLogger, stdout, sinkOut, now, ops, accepted,
                   processed, syncReturned, stopCalls, transitions,
                   initReturned>>

\* close(logger.output): closing a closed channel panics.
CloseOutput(l) ==
    IF loggers[l].outputClosed
    THEN /\ panicked' = "close of closed channel"
         /\ UNCHANGED loggers
    ELSE /\ loggers' = [loggers EXCEPT ![l].outputClosed = TRUE]
         /\ UNCHANGED panicked

\* Logger.Stop (src/log.go:162-164).
Stop(t, l) ==
    /\ CanCall(t)
    /\ CloseOutput(l)
    /\ ops' = ops + 1
    /\ stopCalls' = [stopCalls EXCEPT ![l] = @ + 1]
    /\ UNCHANGED <<LOGLEVEL, LOG_MSG_LEN, msgPool, failing, dropped, idSetAt,
                   workers, threads,
                   singleLogger, stdout, sinkOut, now, accepted, processed,
                   syncReturned, transitions, initReturned>>

\* Logger.StopSync up to its receive (src/log.go:167): the queue is closed
\* and the caller blocks in <-logger.stop.
StopSync(t, l) ==
    /\ CanCall(t)
    /\ CloseOutput(l)
    /\ threads' = [threads EXCEPT ![t] =
           IF loggers[l].outputClosed THEN @
           ELSE [Idle EXCEPT !.at = "wait", !.l = l]]
    /\ ops' = ops + 1
    /\ stopCalls' = [stopCalls EXCEPT ![l] = @ + 1]
    /\ UNCHANGED <<LOGLEVEL, LOG_MSG_LEN, msgPool, failing, dropped, idSetAt,
                   workers, singleLogger,
                   stdout, sinkOut, now, accepted, processed, syncReturned,
                   transitions, initReturned>>

\* The worker of l is blocked in logger.stop <- true (src/log.go:141).
Signalling(l) == workers[l].pc = "signal"

\* The rest of StopSync (src/log.go:168-169): the receive meets the worker's
\* send on the unbuffered stop channel, the worker's goroutine ends, and the
\* caller closes stop and returns (to StopSyncSingle, when called from it).
StopSyncReturn(t) ==
    LET l == threads[t].l IN
    /\ Running
    /\ threads[t].at = "wait"
    /\ Signalling(l)
    /\ workers' = [workers EXCEPT ![l].pc = "done"]
    /\ loggers' = [loggers EXCEPT ![l].stopClosed = TRUE]
    /\ threads' = [threads EXCEPT ![t] =
           IF @.single THEN [Idle EXCEPT !.at = "setnil"] ELSE Idle]
    /\ syncReturned' = syncReturned \cup {l}
    /\ UNCHANGED <<LOGLEVEL, LOG_MSG_LEN, msgPool, failing, dropped, idSetAt,
                   singleLogger, stdout,
                   sinkOut, now, panicked, ops, accepted, processed,
                   stopCalls, transitions, initReturned>>

\* Logger.AddWriter (src/log.go:208-210) is a read of logger.writers, an
\* append to what was read, and a write of the result, with no lock: here
\* the read.
AddWriter(t, l, w) ==
    /\ CanCall(t)
    /\ threads' = [threads EXCEPT ![t] =
           [Idle EXCEPT !.at = "addw", !.l = l, !.w = w,
                        !.ws = loggers[l].writers]]
    /\ ops' = ops + 1
    /\ UNCHANGED <<LOGLEVEL, LOG_MSG_LEN, msgPool, failing, dropped, idSetAt,
                   loggers, workers,
                   singleLogger, stdout, sinkOut, now, panicked, accepted,
                   processed, syncReturned, stopCalls, transitions,
                   initReturned>>

\* The sinks that stay registered for the record the worker of l is printing,
\* once the sink list of l becomes ws (history only).
StillRegistered(l, ws) ==
    IF Printing(l) /\ accepted[l] # <<>>
    THEN [accepted EXCEPT ![l][Len(accepted[l])].reg = @ \cap Range(ws)]
    ELSE accepted

\* The write that ends AddWriter: logger.writers = append(read, writer).
AddWriterStore(t) ==
    LET l == threads[t].l
        ws == Append(threads[t].ws, threads[t].w) IN
    /\ Running
    /\ threads[t].at = "addw"
    /\ loggers' = [loggers EXCEPT ![l].writers = ws]
    /\ accepted' = StillRegistered(l, ws)
    /\ threads' = [threads EXCEPT ![t] = Idle]
    /\ UNCHANGED <<LOGLEVEL, LOG_MSG_LEN, msgPool, failing, dropped, idSetAt,
                   workers, singleLogger,
                   stdout, sinkOut, now, panicked, ops, processed,
                   syncReturned, stopCalls, transitions, initReturned>>

\* Logger.SetModuleId (src/log.go:212-214).
SetModuleId(t, l, id) ==
    /\ CanCall(t)
    /\ loggers' = [loggers EXCEPT ![l].id = id]
    /\ idSetAt' = [idSetAt EXCEPT ![l] = now]
    /\ ops' = ops + 1
    /\ UNCHANGED <<LOGLEVEL, LOG_MSG_LEN, msgPool, failing, dropped,
                   workers, threads,
                   singleLogger, stdout, sinkOut, now, panicked, accepted,
                   processed, syncReturned, stopCalls, transitions,
                   initReturned>>

-----------------------------------------------------------------------------
(* The worker goroutine of loggers[l] (src/log.go:136-142) and printMessage *)

\* for msg := range logger.output, a receive: the unbuffered channel hands
\* over the LogMsg of one blocked sender, whose log call returns.
Receive(l, t) ==
    /\ Running
    /\ workers[l].pc = "recv"
    /\ ~loggers[l].outputClosed
    /\ threads[t].at = "send" /\ threads[t].l = l
    /\ workers' = [workers EXCEPT ![l] =
                      [NewWorker EXCEPT !.pc = "print", !.msg = threads[t].msg]]
    /\ threads' = [threads EXCEPT ![t] = Idle]
    /\ accepted' = [accepted EXCEPT ![l] =
                      Append(@, [msg |-> threads[t].msg,
                                 reg |-> Range(loggers[l].writers),
                                 seenId |-> loggers[l].id])]
    /\ UNCHANGED <<LOGLEVEL, LOG_MSG_LEN, msgPool, failing, dropped, idSetAt,
                   loggers, singleLogger,
                   stdout, sinkOut, now, panicked, ops, processed,
                   syncReturned, stopCalls, transitions, initReturned>>

\* Mutant of RangeEnds: the worker gives up the record it is printing as
\* soon as the channel is closed.
RangeEndsAtClose(l) ==
    workers[l].pc \in {"recv", "print", "loop"} /\ loggers[l].outputClosed

\* The range loop sees the closed channel.
RangeEnds(l) == workers[l].pc = "recv" /\ loggers[l].outputClosed

\* The range loop ends and the worker blocks in logger.stop <- true
\* (src/log.go:141).
WorkerSignal(l) ==
    /\ Running
    /\ RangeEnds(l)
    /\ workers' = [workers EXCEPT ![l] = [NewWorker EXCEPT !.pc = "signal"]]
    /\ UNCHANGED <<LOGLEVEL, LOG_MSG_LEN, msgPool, failing, dropped, idSetAt,
                   loggers, threads,
                   singleLogger, stdout, sinkOut, now, panicked, ops,
                   accepted, processed, syncReturned, stopCalls, transitions,
                   initReturned>>

\* Mutant of Filtered: the comparison includes the threshold itself.
FilteredInclusive(msg, logger) == msg.Level <= logger.Level

\* The level filter of printMessage (src/log.go:62).
Filtered(msg, logger) == msg.Level < logger.Level

\* printMessage returns (and the worker yields): back to the receive.
Return(l) ==
    /\ workers' = [workers EXCEPT ![l] = NewWorker]
    /\ processed' = processed \cup {workers[l].msg.Timestamp}

\* printMessage's entry (src/log.go:62-64).
PrintFilter(l) ==
    /\ Running
    /\ workers[l].pc = "print"
    /\ IF Filtered(workers[l].msg, loggers[l])
       THEN Return(l)
       ELSE /\ workers' = [workers EXCEPT ![l].pc = "loop"]
            /\ UNCHANGED processed
    /\ UNCHANGED <<LOGLEVEL, LOG_MSG_LEN, msgPool, failing, dropped, idSetAt,
                   loggers, threads,
                   singleLogger, stdout, sinkOut, now, panicked, ops,
                   accepted, syncReturned, stopCalls, transitions,
                   initReturned>>

\* index after the inner loop (src/log.go:67-76).
SplitIndex(text, msgLen) == LastNewline(text, msgLen, Index(text, NL), -1)

\* The slice expressions of the split panic when msgLen is negative and no
\* newline was found: text[:msgLen] (src/log.go:79).
SplitPanics(text, msgLen) == SplitIndex(text, msgLen) = -1 /\ msgLen < 0

\* msgPart.Message as set at src/log.go:79 and :82.
SplitPart(text, msgLen) ==
    IF SplitIndex(text, msgLen) = -1
    THEN Slice(text, 0, msgLen)
    ELSE Slice(text, 0, SplitIndex(text, msgLen))

\* text as left at src/log.go:80 and :83.
SplitRest(text, msgLen) ==
    IF SplitIndex(text, msgLen) = -1
    THEN SliceFrom(text, msgLen)
    ELSE SliceFrom(text, SplitIndex(text, msgLen) + 1)

\* The loop condition of printMessage (src/log.go:65): it tests msg.Message.
TooLong(w, logger) == Len(w.msg.Message) > logger.msgLen

\* One pass from the loop test of printMessage to the first write: either the
\* body of the loop up to fmt.Printf (src/log.go:66-86), or, when the test
\* fails, the marshalling and write of msg itself (src/log.go:92-94).  Each
\* pass of the body starts again from msg.Message.  The range over
\* logger.writers that follows reads the slice once.
PrintLoop(l) ==
    LET w == workers[l]
        lg == loggers[l]
        text == w.msg.Message
        msgPart == [w.msg EXCEPT !.Message = SplitPart(text, lg.msgLen)]
    IN
    /\ Running
    /\ w.pc = "loop"
    /\ IF TooLong(w, lg)
       THEN IF SplitPanics(text, lg.msgLen)
            THEN /\ panicked' = "slice bounds out of range"
                 /\ UNCHANGED <<workers, stdout>>
            ELSE /\ stdout' = Emit(stdout, Marshal(msgPart))
                 /\ workers' = [workers EXCEPT ![l] =
                        [w EXCEPT !.pc = "fragsinks", !.msgPart = msgPart,
                                  !.text = SplitRest(text, lg.msgLen),
                                  !.ws = lg.writers, !.wi = 1]]
                 /\ UNCHANGED panicked
       ELSE /\ stdout' = Emit(stdout, Marshal(w.msg))
            /\ workers' = [workers EXCEPT ![l] =
                   [w EXCEPT !.pc = "lastsinks", !.ws = lg.writers, !.wi = 1]]
            /\ UNCHANGED panicked
    /\ UNCHANGED <<LOGLEVEL, LOG_MSG_LEN, msgPool, failing, dropped, idSetAt,
                   loggers, threads,
                   singleLogger, sinkOut, now, ops, accepted, processed,
                   syncReturned, stopCalls, transitions, initReturned>>

\* fmt.Fprintf(w, ...) and w.Write(...) on a registered io.Writer
\* (src/log.go:88, 96): a failing writer takes nothing and returns an error,
\* which the worker does not look at.
SinkWrite(sink, line) ==
    IF sink \in failing THEN sinkOut
    ELSE [sinkOut EXCEPT ![sink] = Emit(@, line)]

\* Mutant of NextSink: the range over the writers ends at the first write
\* that returns an error.
NextSinkUnlessError(w) ==
    IF w.ws[w.wi] \in failing THEN Len(w.ws) + 1 ELSE w.wi + 1

\* The range over logger.writers goes on to the next writer whatever the
\* write returned (src/log.go:87-89, 95-97).
NextSink(w) == w.wi + 1

\* The range over the writers inside the loop (src/log.go:87-90): one
\* fmt.Fprintf per step, then msgPart.Message = text and back to the test.
PrintFragSink(l) ==
    LET w == workers[l] IN
    /\ Running
    /\ w.pc = "fragsinks"
    /\ IF w.wi <= Len(w.ws)
       THEN /\ sinkOut' = SinkWrite(w.ws[w.wi], Marshal(w.msgPart))
            /\ workers' = [workers EXCEPT ![l].wi = NextSink(w)]
       ELSE /\ workers' = [workers EXCEPT ![l] =
                   [w EXCEPT !.pc = "loop", !.msgPart.Message = w.text,
                             !.ws = <<>>, !.wi = 0]]
            /\ UNCHANGED sinkOut
    /\ UNCHANGED <<LOGLEVEL, LOG_MSG_LEN, msgPool, failing, dropped, idSetAt,
                   loggers, threads,
                   singleLogger, stdout, now, panicked, ops, accepted,
                   processed, syncReturned, stopCalls, transitions,
                   initReturned>>

\* The range over the writers after the loop (src/log.go:95-97): one
\* w.Write per step, then printMessage returns.
PrintLastSink(l) ==
    LET w == workers[l] IN
    /\ Running
    /\ w.pc = "lastsinks"
    /\ IF w.wi <= Len(w.ws)
       THEN /\ sinkOut' = SinkWrite(w.ws[w.wi], Marshal(w.msg))
            /\ workers' = [workers EXCEPT ![l].wi = NextSink(w)]
            /\ UNCHANGED processed
       ELSE /\ Return(l)
            /\ UNCHANGED sinkOut
    /\ UNCHANGED <<LOGLEVEL, LOG_MSG_LEN, msgPool, failing, dropped, idSetAt,
                   loggers, threads,
                   singleLogger, stdout, now, panicked, ops, accepted,
                   syncReturned, stopCalls, transitions, initReturned>>

-----------------------------------------------------------------------------
(* One Logger, created by Init("app") before the callers start *)

\* Values of LOGLEVEL and LOG_MSG_LEN a run may start under.
LevelEnv == {"", "DEBUG", "ERROR"}
MsgLenEnv == {<<>>, <<"2">>, <<"-", "1">>}

\* The texts the callers log: shorter than, as long as, and longer than the
\* threshold 2.
Texts == {<<"x">>, <<"a", "b", "c">>}
Ids == {"n1"}

Start ==
    /\ LOGLEVEL \in LevelEnv
    /\ LOG_MSG_LEN \in MsgLenEnv
    /\ msgPool = Texts
    /\ loggers = <<Init("app")>>
    /\ workers = <<NewWorker>>
    /\ threads = [t \in Threads |-> Idle]
    /\ singleLogger = 0
    /\ stdout = <<>>
    /\ sinkOut = [w \in Sinks |-> <<>>]
    /\ now = 0
    /\ panicked = ""
    /\ ops = 0
    /\ accepted = [l \in 1..MaxLoggers |-> <<>>]
    /\ processed = {}
    /\ syncReturned = {}
    /\ stopCalls = [l \in 1..MaxLoggers |-> 0]
    /\ transitions = 0
    /\ initReturned = {}
    /\ failing = {}
    /\ dropped = {}
    /\ idSetAt = [l \in 1..MaxLoggers |-> 0]

Work ==
    \/ \E t \in Threads : SendPanic(t)
    \/ \E t \in Threads : StopSyncReturn(t)
    \/ \E l \in LoggerIds, t \in Threads : Receive(l, t)
    \/ \E l \in LoggerIds : WorkerSignal(l)
    \/ \E l \in LoggerIds : PrintFilter(l)
    \/ \E l \in LoggerIds : PrintLoop(l)
    \/ \E l \in LoggerIds : PrintFragSink(l)
    \/ \E l \in LoggerIds : PrintLastSink(l)

Next ==
    \/ \E t \in Threads, l \in LoggerIds, level \in Levels, text \in msgPool :
           LogCall(t, l, level, text)
    \/ \E t \in Threads, l \in LoggerIds : Stop(t, l)
    \/ \E t \in Threads, l \in LoggerIds : StopSync(t, l)
    \/ \E t \in Threads, l \in LoggerIds, w \in Sinks : AddWriter(t, l, w)
    \/ \E t \in Threads, l \in LoggerIds, id \in Ids : SetModuleId(t, l, id)
    \/ \E t \in Threads : AddWriterStore(t)
    \/ Work

Spec == Start /\ [][Next]_vars

\* The steps of the worker goroutine of loggers[l].
WorkerStep(l) ==
    /\ l \in LoggerIds
    /\ \/ \E t \in Threads : Receive(l, t)
       \/ WorkerSignal(l)
       \/ PrintFilter(l)
       \/ PrintLoop(l)
       \/ PrintFragSink(l)
       \/ PrintLastSink(l)

\* The Go scheduler runs every goroutine that can run: the workers, and the
\* callers inside a call.  Nothing makes a caller start another call.
Fairness ==
    /\ \A l \in 1..MaxLoggers : WF_vars(WorkerStep(l))
    /\ \A t \in Threads : /\ WF_vars(StopSyncReturn(t))
                          /\ WF_vars(SendPanic(t))
                          /\ WF_vars(AddWriterStore(t))

\* One Logger with the split threshold 2 or the default.
FairStart == Start /\ LOGLEVEL = "" /\ LOG_MSG_LEN \in {<<>>, <<"2">>}

FairSpec == FairStart /\ [][Next]_vars /\ Fairness

\* One Logger, and among the io.Writers the callers may register one whose
\* Write returns an error every time.
StartFailing ==
    /\ LOGLEVEL = ""
    /\ LOG_MSG_LEN \in {<<>>, <<"2">>}
    /\ msgPool = Texts
    /\ loggers = <<Init("app")>>
    /\ workers = <<NewWorker>>
    /\ threads = [t \in Threads |-> Idle]
    /\ singleLogger = 0
    /\ stdout = <<>>
    /\ sinkOut = [w \in Sinks |-> <<>>]
    /\ now = 0
    /\ panicked = ""
    /\ ops = 0
    /\ accepted = [l \in 1..MaxLoggers |-> <<>>]
    /\ processed = {}
    /\ syncReturned = {}
    /\ stopCalls = [l \in 1..MaxLoggers |-> 0]
    /\ transitions = 0
    /\ initReturned = {}
    /\ failing \in {{w} : w \in Sinks}
    /\ dropped = {}
    /\ idSetAt = [l \in 1..MaxLoggers |-> 0]

SpecFailing == StartFailing /\ [][Next]_vars

-----------------------------------------------------------------------------
(* printMessage on every short message: one Logger, whose callers log one  *)
(* text, any sequence of up to MaxMsgLen letters and newlines, under       *)
(* every kind of LOG_MSG_LEN.                                               *)

Chars == {"a", NL}

AllTexts == UNION {[1..n -> Chars] : n \in 1..MaxMsgLen}

\* LOG_MSG_LEN absent, not a number, zero, positive, negative.
SplitEnv == {<<>>, <<"x">>, <<"0">>, <<"1">>, <<"2">>, <<"-", "1">>}

StartSplit ==
    /\ LOGLEVEL \in {"", "DEBUG"}
    /\ LOG_MSG_LEN \in SplitEnv
    /\ msgPool \in {{text} : text \in AllTexts}
    /\ loggers = <<Init("app")>>
    /\ workers = <<NewWorker>>
    /\ threads = [t \in Threads |-> Idle]
    /\ singleLogger = 0
    /\ stdout = <<>>
    /\ sinkOut = [w \in Sinks |-> <<>>]
    /\ now = 0
    /\ panicked = ""
    /\ ops = 0
    /\ accepted = [l \in 1..MaxLoggers |-> <<>>]
    /\ processed = {}
    /\ syncReturned = {}
    /\ stopCalls = [l \in 1..MaxLoggers |-> 0]
    /\ transitions = 0
    /\ initReturned = {}
    /\ failing = {}
    /\ dropped = {}
    /\ idSetAt = [l \in 1..MaxLoggers |-> 0]

NextSplit ==
    \/ \E t \in Threads, l \in LoggerIds, level \in {DebugLevel, InfoLevel},
           text \in msgPool : LogCall(t, l, level, text)
    \/ \E l \in LoggerIds, t \in Threads : Receive(l, t)
    \/ \E l \in LoggerIds : PrintFilter(l)
    \/ \E l \in LoggerIds : PrintLoop(l)
    \/ \E l \in LoggerIds : PrintFragSink(l)
    \/ \E l \in LoggerIds : PrintLastSink(l)

SpecSplit == StartSplit /\ [][NextSplit]_vars

-----------------------------------------------------------------------------
(* The package-level singleton (src/log.go:216-265).  Every read and write *)
(* of singleLogger is a step of its own: nothing orders them.              *)

Unchanged_single ==
    UNCHANGED <<LOGLEVEL, LOG_MSG_LEN, msgPool, failing, idSetAt,
                loggers, workers,
                singleLogger, stdout, sinkOut, now, panicked, accepted,
                processed, syncReturned, stopCalls, transitions, initReturned>>

\* Mutant of InitSingleStr: no test of singleLogger, every call creates.
InitSingleStrAlways(t, module) ==
    /\ CanCall(t)
    /\ threads' = [threads EXCEPT ![t] =
           [Idle EXCEPT !.at = "create",
                        !.msg = [NoMsg EXCEPT !.Module = module]]]
    /\ ops' = ops + 1
    /\ UNCHANGED dropped
    /\ Unchanged_single

\* InitSingleStr, the test singleLogger == nil (src/log.go:223).
InitSingleStr(t, module) ==
    /\ CanCall(t)
    /\ threads' = [threads EXCEPT ![t] =
           [Idle EXCEPT !.at = IF singleLogger = 0 THEN "create" ELSE "return",
                        !.msg = [NoMsg EXCEPT !.Module = module]]]
    /\ ops' = ops + 1
    /\ UNCHANGED dropped
    /\ Unchanged_single

\* singleLogger = Init(module) (src/log.go:224): a new Logger and its worker.
InitSingleCreate(t) ==
    /\ Running
    /\ threads[t].at = "create"
    /\ Len(loggers) < MaxLoggers
    /\ loggers' = Append(loggers, Init(threads[t].msg.Module))
    /\ workers' = Append(workers, NewWorker)
    /\ singleLogger' = Len(loggers) + 1
    /\ transitions' = IF singleLogger = 0 THEN transitions + 1 ELSE transitions
    /\ threads' = [threads EXCEPT ![t].at = "return"]
    /\ UNCHANGED <<LOGLEVEL, LOG_MSG_LEN, msgPool, failing, dropped, idSetAt,
                   stdout, sinkOut, now,
                   panicked, ops, accepted, processed, syncReturned,
                   stopCalls, initReturned>>

\* return singleLogger (src/log.go:226).
InitSingleReturn(t) ==
    /\ Running
    /\ threads[t].at = "return"
    /\ initReturned' = initReturned \cup {singleLogger}
    /\ threads' = [threads EXCEPT ![t] = Idle]
    /\ UNCHANGED <<LOGLEVEL, LOG_MSG_LEN, msgPool, failing, dropped, idSetAt,
                   loggers, workers,
                   singleLogger, stdout, sinkOut, now, panicked, ops,
                   accepted, processed, syncReturned, stopCalls, transitions>>

\* Mutant of FreeCall: no test of singleLogger, the call goes on to log.
FreeCallUnchecked(t, level, text) ==
    /\ CanCall(t)
    /\ threads' = [threads EXCEPT ![t] =
           [Idle EXCEPT !.at = "deref", !.msg.Level = level,
                        !.msg.Message = text]]
    /\ ops' = ops + 1
    /\ UNCHANGED dropped
    /\ Unchanged_single

\* The package functions Debug, Info, Warning, Error: the test
\* singleLogger != nil (src/log.go:230, 236, 242, 248).
FreeCall(t, level, text) ==
    /\ CanCall(t)
    /\ threads' = [threads EXCEPT ![t] =
           IF singleLogger = 0 THEN Idle
           ELSE [Idle EXCEPT !.at = "deref", !.msg.Level = level,
                             !.msg.Message = text]]
    /\ dropped' = IF singleLogger = 0 THEN dropped \cup {Len(loggers)}
                   ELSE dropped
    /\ ops' = ops + 1
    /\ Unchanged_single

\* singleLogger.log(...) (src/log.go:231): singleLogger is read again, and
\* log on a nil *Logger panics.
FreeCallLog(t) ==
    /\ Running
    /\ threads[t].at = "deref"
    /\ IF singleLogger = 0
       THEN /\ panicked' = "nil pointer dereference"
            /\ UNCHANGED <<threads, now>>
       ELSE /\ log(t, singleLogger, threads[t].msg.Level, threads[t].msg.Message)
            /\ UNCHANGED panicked
    /\ UNCHANGED <<LOGLEVEL, LOG_MSG_LEN, msgPool, failing, dropped, idSetAt,
                   loggers, workers,
                   singleLogger, stdout, sinkOut, ops, accepted, processed,
                   syncReturned, stopCalls, transitions, initReturned>>

\* StopSingle and StopSyncSingle, the test singleLogger != nil
\* (src/log.go:254, 261).
StopSingleCall(t, sync) ==
    /\ CanCall(t)
    /\ threads' = [threads EXCEPT ![t] =
           [Idle EXCEPT !.at = IF singleLogger = 0 THEN "setnil" ELSE "stop",
                        !.single = sync]]
    /\ ops' = ops + 1
    /\ UNCHANGED dropped
    /\ Unchanged_single

\* singleLogger.Stop() or singleLogger.StopSync() up to its receive
\* (src/log.go:255, 262): singleLogger is read again.
StopSingleClose(t) ==
    /\ Running
    /\ threads[t].at = "stop"
    /\ IF singleLogger = 0
       THEN /\ panicked' = "nil pointer dereference"
            /\ UNCHANGED <<loggers, threads, stopCalls>>
       ELSE /\ CloseOutput(singleLogger)
            /\ stopCalls' = [stopCalls EXCEPT ![singleLogger] = @ + 1]
            /\ threads' = [threads EXCEPT ![t] =
                   IF loggers[singleLogger].outputClosed THEN @
                   ELSE IF @.single
                        THEN [@ EXCEPT !.at = "wait", !.l = singleLogger]
                        ELSE [@ EXCEPT !.at = "setnil"]]
    /\ UNCHANGED <<LOGLEVEL, LOG_MSG_LEN, msgPool, failing, dropped, idSetAt,
                   workers, singleLogger,
                   stdout, sinkOut, now, ops, accepted, processed,
                   syncReturned, transitions, initReturned>>

\* singleLogger = nil (src/log.go:257, 264).
StopSingleNil(t) ==
    /\ Running
    /\ threads[t].at = "setnil"
    /\ singleLogger' = 0
    /\ threads' = [threads EXCEPT ![t] = Idle]
    /\ UNCHANGED <<LOGLEVEL, LOG_MSG_LEN, msgPool, failing, dropped, idSetAt,
                   loggers, workers, stdout,
                   sinkOut, now, panicked, ops, accepted, processed,
                   syncReturned, stopCalls, transitions, initReturned>>

Modules == {"1", "2"}

\* The process before any Logger exists.
StartSingle ==
    /\ LOGLEVEL \in {"", "DEBUG"}
    /\ LOG_MSG_LEN \in {<<>>, <<"2">>}
    /\ msgPool = Texts
    /\ loggers = <<>>
    /\ workers = <<>>
    /\ threads = [t \in Threads |-> Idle]
    /\ singleLogger = 0
    /\ stdout = <<>>
    /\ sinkOut = [w \in Sinks |-> <<>>]
    /\ now = 0
    /\ panicked = ""
    /\ ops = 0
    /\ accepted = [l \in 1..MaxLoggers |-> <<>>]
    /\ processed = {}
    /\ syncReturned = {}
    /\ stopCalls = [l \in 1..MaxLoggers |-> 0]
    /\ transitions = 0
    /\ initReturned = {}
    /\ failing = {}
    /\ dropped = {}
    /\ idSetAt = [l \in 1..MaxLoggers |-> 0]

NextSingle ==
    \/ \E t \in Threads, module \in Modules : InitSingleStr(t, module)
    \/ \E t \in Threads : InitSingleCreate(t)
    \/ \E t \in Threads : InitSingleReturn(t)
    \/ \E t \in Threads, level \in {DebugLevel, InfoLevel}, text \in msgPool :
           FreeCall(t, level, text)
    \/ \E t \in Threads : FreeCallLog(t)
    \/ \E t \in Threads, sync \in BOOLEAN : StopSingleCall(t, sync)
    \/ \E t \in Threads : StopSingleClose(t)
    \/ \E t \in Threads : StopSingleNil(t)
    \/ Work

SpecSingle == StartSingle /\ [][NextSingle]_vars

\* No caller goroutine is inside a call.
AllIdle == \A t \in Threads : threads[t].at = "idle"

\* Sequential use of the singleton, as in the benchmark
\* (src/unnamed/part_000:37-54): a call starts only when the call before it
\* has returned.  The workers run beside the callers.
NextSeq ==
    \/ AllIdle /\ \E t \in Threads, module \in Modules : InitSingleStr(t, module)
    \/ \E t \in Threads : InitSingleCreate(t)
    \/ \E t \in Threads : InitSingleReturn(t)
    \/ AllIdle /\ \E t \in Threads, level \in {DebugLevel, InfoLevel},
                       text \in msgPool : FreeCall(t, level, text)
    \/ \E t \in Threads : FreeCallLog(t)
    \/ AllIdle /\ \E t \in Threads, sync \in BOOLEAN : StopSingleCall(t, sync)
    \/ \E t \in Threads : StopSingleClose(t)
    \/ \E t \in Threads : StopSingleNil(t)
    \/ \E t \in Threads : StopSyncReturn(t)
    \/ \E l \in LoggerIds : WorkerStep(l)

SpecSeq == StartSingle /\ [][NextSeq]_vars

-----------------------------------------------------------------------------
(* What the claims speak of *)

\* The records accepted from loggers[l].output, in the order of their
\* receives.
Accepted(l) == {accepted[l][i] : i \in 1..Len(accepted[l])}

AllAccepted == UNION {{[l |-> l, msg |-> a.msg, reg |-> a.reg] : a \in Accepted(l)}
                          : l \in LoggerIds}

\* ln is a line of the stream.
Has(stream, ln) == \E k \in 1..Len(stream) : stream[k] = ln

\* Where the record stamped ts stands in the order of accepted[l].
AcceptPos(l, ts) ==
    CHOOSE i \in 1..Len(accepted[l]) : accepted[l][i].msg.Timestamp = ts

\* The record's level is below the minimum level of handle l.
BelowLevel(msg, l) == msg.Level < loggers[l].Level

Stamps(l) == {a.msg.Timestamp : a \in Accepted(l)}

-----------------------------------------------------------------------------
\* C1: once StopSync has returned on a handle, every record that was accepted
\* from its queue and passes the level filter stands, whole, on standard
\* output and on every sink that was registered throughout its processing.
StopSyncDrains ==
    \A l \in syncReturned : \A a \in Accepted(l) :
        ~BelowLevel(a.msg, l) =>
            /\ Has(stdout, Marshal(a.msg))
            /\ \A w \in a.reg : Has(sinkOut[w], Marshal(a.msg))

\* StopSync has returned after a record that passes the filter was accepted
\* while a sink was registered.
StopSyncDrainsWitness ==
    \E l \in syncReturned : \E a \in Accepted(l) :
        ~BelowLevel(a.msg, l) /\ a.reg # {}

-----------------------------------------------------------------------------
\* The lines of one handle's records stand on the stream in the order in
\* which the records were accepted, and every line is of an accepted record.
InOrder(stream) ==
    /\ \A k \in 1..Len(stream) :
           \E l \in LoggerIds : stream[k]["timestamp"] \in Stamps(l)
    /\ \A i, j \in 1..Len(stream) : \A l \in LoggerIds :
           (/\ i < j
            /\ stream[i]["timestamp"] \in Stamps(l)
            /\ stream[j]["timestamp"] \in Stamps(l))
           => AcceptPos(l, stream[i]["timestamp"])
                  <= AcceptPos(l, stream[j]["timestamp"])

\* C2: on standard output and on each sink, records appear in the order in
\* which their enqueues completed: no line of a record accepted later stands
\* before a line of a record accepted earlier.
FifoDelivery == InOrder(stdout) /\ \A w \in Sinks : InOrder(sinkOut[w])

\* Two records of racing producers are on standard output and on a sink, the
\* one built later (larger Timestamp) accepted and written first.
FifoDeliveryWitness ==
    /\ Len(stdout) >= 2
    /\ stdout[1]["timestamp"] > stdout[2]["timestamp"]
    /\ \E w \in Sinks : Len(sinkOut[w]) >= 2
                          /\ sinkOut[w][1]["timestamp"] # sinkOut[w][2]["timestamp"]

-----------------------------------------------------------------------------
\* C5: no line on standard output or on a sink is of a record below the
\* handle's level, and every record at or above it that printMessage has
\* returned for stands on standard output as exactly one line, its own.
LevelFilter ==
    /\ \A r \in AllAccepted :
           BelowLevel(r.msg, r.l) =>
               /\ LinesOf(stdout, r.msg.Timestamp) = <<>>
               /\ \A w \in Sinks : LinesOf(sinkOut[w], r.msg.Timestamp) = <<>>
    /\ \A r \in AllAccepted :
           (~BelowLevel(r.msg, r.l) /\ r.msg.Timestamp \in processed) =>
               LinesOf(stdout, r.msg.Timestamp) = <<Marshal(r.msg)>>

\* LOGLEVEL=ERROR, a Debug record and an Error record have both been
\* processed, and standard output holds one line, at level ERROR.
LevelFilterWitness ==
    /\ LOGLEVEL = "ERROR"
    /\ \E a, b \in AllAccepted :
           /\ a.msg.Level = DebugLevel /\ a.msg.Timestamp \in processed
           /\ b.msg.Level = ErrorLevel /\ b.msg.Timestamp \in processed
           /\ a.msg.Timestamp < b.msg.Timestamp
    /\ Len(stdout) = 1
    /\ stdout[1]["level"] = "ERROR"

-----------------------------------------------------------------------------
\* The k-th of the pieces of msgLen units that text divides into.
Chunk(text, msgLen, k) ==
    Slice(text, (k - 1) * msgLen,
          IF k * msgLen < Len(text) THEN k * msgLen ELSE Len(text))

\* ceil(n / d)
CeilDiv(n, d) == (n + d - 1) \div d

\* The record is longer than the (positive) threshold of its handle, has no
\* newline, and passes the filter.
LongPlain(r) ==
    /\ ~BelowLevel(r.msg, r.l)
    /\ loggers[r.l].msgLen > 0
    /\ Len(r.msg.Message) > loggers[r.l].msgLen
    /\ Index(r.msg.Message, NL) = -1

\* C3: for a message longer than the threshold and without a newline the
\* worker emits ceil(len/threshold) lines, the k-th carrying the k-th piece
\* of threshold units: the lines written so far are the first pieces, never
\* more than ceil(len/threshold) of them, and all of them once printMessage
\* has returned.
SplitsIntoPieces ==
    \A r \in AllAccepted :
        LongPlain(r) =>
            LET lines == LinesOf(stdout, r.msg.Timestamp)
                n == CeilDiv(Len(r.msg.Message), loggers[r.l].msgLen)
            IN  /\ Len(lines) <= n
                /\ \A k \in 1..Len(lines) :
                       lines[k]["message"]
                           = Chunk(r.msg.Message, loggers[r.l].msgLen, k)
                /\ r.msg.Timestamp \in processed => Len(lines) = n

-----------------------------------------------------------------------------
\* StopSync has been called on handle l, its caller waits for the worker, no
\* other shutdown call was made on l and no producer is inside a log call.
StopSyncCalledAlone(l) ==
    /\ Running
    /\ l \in LoggerIds
    /\ stopCalls[l] = 1
    /\ \E t \in Threads : threads[t].at = "wait" /\ threads[t].l = l
    /\ \A t \in Threads : threads[t].at # "send"

\* C4: StopSync, called once while no producer is inside a log call,
\* eventually returns (unless a later call panics the process), whatever
\* was logged before.
StopSyncReturns ==
    \A l \in 1..MaxLoggers :
        StopSyncCalledAlone(l) ~> (l \in syncReturned \/ ~Running)

-----------------------------------------------------------------------------
\* C6: a second shutdown call on a handle (Stop or StopSync, after either)
\* does not panic.
SecondStopIsNoOp ==
    \A l \in LoggerIds :
        stopCalls[l] >= 2 => panicked # "close of closed channel"

-----------------------------------------------------------------------------
\* C7: a log call that starts after the handle was stopped does not panic.
LogAfterStopReturns ==
    \A t \in Threads : threads[t].late => threads[t].at # "panicked"

-----------------------------------------------------------------------------
\* The queue of handle l is closed and its worker is not inside printMessage:
\* it is draining, with nothing left to flush.
Draining(l) ==
    /\ Running
    /\ l \in LoggerIds
    /\ loggers[l].outputClosed
    /\ workers[l].pc \in {"recv", "signal"}

\* C8: once the queue is closed, by Stop or by StopSync, the worker goes on
\* to signal completion and its goroutine ends (unless a later call panics
\* the process).
WorkerStopsAfterClose ==
    \A l \in 1..MaxLoggers :
        Draining(l) ~> ((l \in LoggerIds /\ workers[l].pc = "done") \/ ~Running)

-----------------------------------------------------------------------------
\* C9: a producer's log call can complete while the worker is in the middle
\* of writing an earlier record: whenever a producer is in its send on an
\* open queue and the worker is between two writes, the send can be received.
LogNeverWaitsForWrites ==
    \A t \in Threads :
        (/\ Running
         /\ threads[t].at = "send"
         /\ ~loggers[threads[t].l].outputClosed
         /\ workers[threads[t].l].pc \in {"fragsinks", "lastsinks"})
        => ENABLED Receive(threads[t].l, t)

-----------------------------------------------------------------------------
\* C10: the singleton's transitions are atomic: there are no more Loggers
\* than changes of singleLogger from nil to an instance, and no instance has
\* its queue closed twice.
SingletonAtomic ==
    /\ Len(loggers) <= transitions
    /\ \A l \in LoggerIds : stopCalls[l] <= 1

-----------------------------------------------------------------------------
\* C11: in sequential use the singleton goes uninitialized -> initialized ->
\* uninitialized: every Logger was created by a change of singleLogger from
\* nil to an instance (a further InitSingleStr creates nothing and returns the
\* instance there is), InitSingleStr never returns nil, the instance in place
\* between calls has its queue open and its worker alive, after a
\* StopSingle/StopSyncSingle singleLogger is nil and every instance made so
\* far has been stopped, once, and no call panics, a stop of the
\* uninitialized singleton included.
SingletonLifecycle ==
    /\ Len(loggers) = transitions
    /\ singleLogger \in {0, Len(loggers)}
    /\ initReturned \subseteq LoggerIds
    /\ (singleLogger # 0 /\ \A t \in Threads : threads[t].at \notin {"wait", "setnil"})
           => /\ ~loggers[singleLogger].outputClosed
              /\ workers[singleLogger].pc \notin {"signal", "done"}
    /\ (singleLogger = 0 /\ AllIdle)
           => \A l \in LoggerIds : loggers[l].outputClosed
    /\ \A l \in LoggerIds : stopCalls[l] <= 1
    /\ Running

\* The singleton was initialized, stopped and initialized again: the second
\* instance is in place, the first is stopped, and both were returned.
SingletonLifecycleWitness ==
    /\ AllIdle
    /\ transitions = 2
    /\ singleLogger = 2
    /\ loggers[1].outputClosed
    /\ initReturned = {1, 2}

-----------------------------------------------------------------------------
\* Caller t starts a package-level Debug/Info/Warning/Error call in this
\* step: of the calls on the singleton, only these leave the caller idle or
\* about to log.
FreeCallStep(t) ==
    /\ threads[t].at = "idle"
    /\ ops' = ops + 1
    /\ threads'[t].at \in {"idle", "deref"}

\* C12: a package-level log call made while singleLogger is nil (never
\* initialized, or stopped) is a no-op: the caller is back outside the API at
\* once, nothing is handed to any queue, nothing is written, no Logger is
\* touched and nothing panics.
FreeCallsAreNoOps ==
    [][\A t \in Threads :
          (singleLogger = 0 /\ FreeCallStep(t)) =>
              /\ threads'[t] = Idle
              /\ UNCHANGED <<loggers, workers, singleLogger, stdout, sinkOut,
                             accepted, processed, panicked>>]_vars

\* A package-level log call found singleLogger nil after the singleton had
\* been initialized and stopped, and the process runs on with no caller
\* inside a call.
FreeCallsAreNoOpsWitness ==
    /\ 1 \in dropped
    /\ singleLogger = 0
    /\ AllIdle
    /\ Running

-----------------------------------------------------------------------------
\* C13: an AddWriter call and the worker's pass over the sink list of the
\* same handle are never under way at the same time: no caller is between
\* AddWriter's read and its write of logger.writers while the worker ranges
\* over logger.writers.
NoSinkListRace ==
    \A t \in Threads, l \in LoggerIds :
        ~(/\ threads[t].at = "addw"
          /\ threads[t].l = l
          /\ workers[l].pc \in {"fragsinks", "lastsinks"})

-----------------------------------------------------------------------------
\* The service_id a line carries; the key is left out for the empty id.
LineId(ln) == IF "service_id" \in DOMAIN ln THEN ln["service_id"] ELSE ""

\* Every line written for the record carries the id the record was built
\* with.
LinesKeepId(msg) ==
    /\ \A k \in 1..Len(stdout) :
           stdout[k]["timestamp"] = msg.Timestamp
               => LineId(stdout[k]) = msg.ModuleId
    /\ \A w \in Sinks : \A k \in 1..Len(sinkOut[w]) :
           sinkOut[w][k]["timestamp"] = msg.Timestamp
               => LineId(sinkOut[w][k]) = msg.ModuleId

\* C14, as amended: a record carries the id the handle had when its log call
\* built it.  Every record built after the last SetModuleId returned carries
\* the id set by it, and every line written for a record carries the id the
\* record was built with, whatever SetModuleId did since.
ModuleIdAtBuild ==
    \A l \in LoggerIds : \A a \in Accepted(l) :
        /\ a.msg.Timestamp > idSetAt[l] => a.msg.ModuleId = loggers[l].id
        /\ LinesKeepId(a.msg)

\* A record built before SetModuleId("n1") by a producer that was blocked in
\* its send while SetModuleId ran: it was accepted after the call, is on
\* standard output without the id, and a record built after the call carries
\* the id.
ModuleIdAtBuildWitness ==
    \E l \in LoggerIds : \E a, b \in Accepted(l) :
        /\ a.msg.ModuleId = "" /\ a.seenId = "n1"
        /\ Has(stdout, Marshal(a.msg))
        /\ b.msg.ModuleId = "n1"

\* C14, as stated: every record whose enqueue completes after SetModuleId
\* returned carries the new id (the id the handle has when the record is
\* accepted), and no line of a record has another id than the record's.
ModuleIdAtEnqueue ==
    \A l \in LoggerIds : \A a \in Accepted(l) :
        /\ a.msg.ModuleId = a.seenId
        /\ LinesKeepId(a.msg)

-----------------------------------------------------------------------------
\* The worker of l has finished a pass over the sinks for the record and is
\* back at the loop test of printMessage.
BetweenPasses(l, msg) == workers[l].pc = "loop" /\ workers[l].msg = msg

\* The sink holds every line of the record that standard output holds, and
\* at least as many (a sink registered twice is written twice).
SinkHasAll(w, ts) ==
    LET out == LinesOf(stdout, ts)
        got == LinesOf(sinkOut[w], ts)
    IN  /\ Len(got) >= Len(out)
        /\ \A k \in 1..Len(out) : Has(got, out[k])
        /\ \A k \in 1..Len(got) : Has(out, got[k])

\* C15: a sink whose Write returns an error neither stops nor fails the
\* delivery: the process does not panic over it, every record that
\* printMessage has returned for and that passes the filter is on standard
\* output, and whenever the worker has finished a pass for a record, every
\* working sink that stayed registered for the record holds the lines of the
\* record that standard output holds, the sinks listed after a failing one
\* included.
SinkErrorsIgnored ==
    /\ panicked \in {"", "send on closed channel", "close of closed channel"}
    /\ \A l \in LoggerIds : \A a \in Accepted(l) :
           LET ts == a.msg.Timestamp IN
           /\ (ts \in processed /\ ~BelowLevel(a.msg, l))
                  => LinesOf(stdout, ts) = <<Marshal(a.msg)>>
           /\ (ts \in processed \/ BetweenPasses(l, a.msg))
                  => \A w \in a.reg \ failing : SinkHasAll(w, ts)

\* A record was written while a failing sink was registered in front of a
\* working one: the line is on standard output and on the working sink, and
\* a record accepted after it was written too.
SinkErrorsIgnoredWitness ==
    \E l \in LoggerIds : \E a \in Accepted(l) :
        /\ a.msg.Timestamp \in processed
        /\ ~BelowLevel(a.msg, l)
        /\ Len(loggers[l].writers) = 2
        /\ loggers[l].writers[1] \in failing /\ loggers[l].writers[1] \in a.reg
        /\ loggers[l].writers[2] \notin failing /\ loggers[l].writers[2] \in a.reg
        /\ Has(sinkOut[loggers[l].writers[2]], Marshal(a.msg))
        /\ Has(stdout, Marshal(a.msg))

-----------------------------------------------------------------------------
\* The message fields of the lines, in order.
Messages(lines) == [k \in 1..Len(lines) |-> lines[k]["message"]]

\* The texts joined with a newline between each two.
RECURSIVE JoinLines(_)
JoinLines(texts) ==
    IF texts = <<>> THEN <<>>
    ELSE IF Len(texts) = 1 THEN texts[1]
    ELSE texts[1] \o <<NL>> \o JoinLines(Tail(texts))

\* C16: for every record that passes the filter and whose message contains a
\* newline, no line written for it has a newline in its message field, and
\* once printMessage has returned the message fields of its lines, joined
\* with newlines, are the message.
NewlineSplitRebuilds ==
    \A r \in AllAccepted :
        (~BelowLevel(r.msg, r.l) /\ Index(r.msg.Message, NL) # -1) =>
            LET lines == LinesOf(stdout, r.msg.Timestamp) IN
            /\ \A k \in 1..Len(lines) : Index(lines[k]["message"], NL) = -1
            /\ r.msg.Timestamp \in processed
                   => JoinLines(Messages(lines)) = r.msg.Message

-----------------------------------------------------------------------------
\* While the worker of l is inside printMessage, the record it holds is the
\* record it dequeued.
RecordUntouched(l) ==
    Printing(l) => workers[l].msg = accepted[l][Len(accepted[l])].msg

\* The fragment a pass of the splitting loop is to emit when it starts from
\* text: the split of text while text is longer than the threshold.
FragmentOf(text, msgLen) ==
    IF Len(text) > msgLen THEN SplitPart(text, msgLen) ELSE text

\* The worker of l starts a pass of the splitting loop after an earlier pass
\* for the same record, and the fragment it emits is computed from the
\* remainder that the earlier pass left.
NextFragmentFromRest(l) ==
    (/\ workers[l].pc = "loop"
     /\ workers[l].msgPart # NoMsg
     /\ workers'[l].pc = "fragsinks")
    => workers'[l].msgPart.Message
           = FragmentOf(workers[l].text, loggers[l].msgLen)

\* C17: the worker never changes the record it dequeued, and each fragment
\* after the first is computed from the remainder left by the fragment
\* before it, not from the unchanged original.
SplitWorksOnScratchCopy ==
    /\ [](\A l \in LoggerIds : RecordUntouched(l))
    /\ [][\A l \in LoggerIds : NextFragmentFromRest(l)]_vars

-----------------------------------------------------------------------------
\* The lines of each record stand next to each other on the stream.
Contiguous(stream) ==
    \A i, j, k \in 1..Len(stream) :
        (i < j /\ j < k /\ stream[i]["timestamp"] = stream[k]["timestamp"])
            => stream[j]["timestamp"] = stream[i]["timestamp"]

\* C18: on one handle, whatever the producers do, all lines of one record
\* are contiguous on standard output and on each sink: no line of another
\* record stands between two lines of a record.
OutputNotInterleaved ==
    /\ Contiguous(stdout)
    /\ \A w \in Sinks : Contiguous(sinkOut[w])

\* Standard output holds the line of one record and after it two lines of
\* a multi-line record, while a further producer is blocked in its send.
OutputNotInterleavedWitness ==
    /\ Len(stdout) >= 3
    /\ stdout[1]["timestamp"] # stdout[2]["timestamp"]
    /\ stdout[2]["timestamp"] = stdout[3]["timestamp"]
    /\ \E t \in Threads : threads[t].at = "send"

-----------------------------------------------------------------------------
\* C19: a producer that was inside its log call before the queue was closed
\* does not panic: the only callers that panic in a send started their call
\* after the close.
BlockedSenderSurvivesClose ==
    \A t \in Threads : threads[t].at = "panicked" => threads[t].late

-----------------------------------------------------------------------------
\* C20: whatever LOG_MSG_LEN holds, every Logger has a positive split
\* threshold, and the splitting loop never slices out of bounds.
MsgLenPositive ==
    /\ \A l \in LoggerIds : loggers[l].msgLen > 0
    /\ panicked # "slice bounds out of range"

=============================================================================
